---- MODULE Spec2Model ----
(***************************************************************************)
(* q2-bbduk: the command builder _build_bbduk_cmd, the batch runner        *)
(* run_commands and the two drivers trim_single / trim_paired of           *)
(* src/q2_bbduk/_trim.py.                                                  *)
(*                                                                         *)
(* Python values are modelled as follows.  A str is a TLA+ string, an int  *)
(* an integer, a bool a BOOLEAN.  An argument that may be None is wrapped: *)
(* None is <<>> and a value v is <<v>>.  A float with one decimal is the   *)
(* integer number of its tenths (6.0 is 60).  A command is a sequence of   *)
(* strings, exactly the list handed to subprocess.run.                     *)
(***************************************************************************)
EXTENDS Integers, Sequences, FiniteSets, TLC

VARIABLES
    entry,       \* which function is called: trim_single, trim_paired, _build_bbduk_cmd
    params,      \* keyword arguments of the driver call
    manifest,    \* rows of demultiplexed_sequences.manifest, in row order
    pc,          \* position of the call
    row,         \* 1-based index of the next manifest row of the for loop
    cmds,        \* the list cmds of the driver
    td,          \* the TemporaryDirectory: "absent", "exists", "removed"
    next,        \* 1-based index of the next command of run_commands' loop
    invoked,     \* history: the commands handed to subprocess.run, in order
    running,     \* indexes (into invoked) of the subprocesses now running
    exits,       \* history: <<index, returncode>> of every finished subprocess
    outFiles,    \* paths of the files present in trimmed_sequences.path
    statsFiles,  \* paths of the files present in the temporary directory
    call,        \* arguments of a direct _build_bbduk_cmd call (else None)
    ret          \* what that call returned (else None)

vars == <<entry, params, manifest, pc, row, cmds, td, next, invoked, running,
          exits, outFiles, statsFiles, call, ret>>

(***************************************************************************)
(* Bounds                                                                  *)
(***************************************************************************)
MaxRows == 3

(***************************************************************************)
(* Python values                                                           *)
(***************************************************************************)
None == <<>>

Some(v) == <<v>>

\* bool(v) of an Optional[str]: None and '' are falsy
TruthyStr(v) == v # None /\ v[1] # ""

\* bool(v) of an Optional[int]: None and 0 are falsy
TruthyInt(v) == v # None /\ v[1] # 0

\* str() of a float given in tenths: 60 is '6.0', 75 is '7.5'
FloatStr(t) == ToString(t \div 10) \o "." \o ToString(t % 10)

\* s.startswith(p)
StartsWith(s, p) == Len(s) >= Len(p) /\ SubSeq(s, 1, Len(p)) = p

\* position of the last '/' of s, 0 if there is none
LastSlash(s) ==
    LET at == {i \in 1..Len(s) : SubSeq(s, i, i) = "/"}
    IN  IF at = {} THEN 0 ELSE CHOOSE i \in at : \A j \in at : j <= i

\* mutant of Basename: the path is used as it is
BasenameOmitted(s) == s

\* os.path.basename
Basename(s) == SubSeq(s, LastSlash(s) + 1, Len(s))

\* pathlib's  a / b  for a relative b, rendered by str()
PathJoin(a, b) == a \o "/" \o b

(***************************************************************************)
(* _trim_defaults and _build_bbduk_cmd                                     *)
(***************************************************************************)
_trim_defaults ==
    [threads |-> 1, k |-> 27, ktrim |-> "f", mink |-> None, qtrim |-> "f",
     trimq |-> 60, minlength |-> 10, tpe |-> FALSE, tbo |-> FALSE,
     minoverlap |-> 14, ref |-> None, literal |-> None,
     forcetrimleft |-> Some(0), forcetrimright |-> Some(0), kmask |-> None,
     overwrite |-> TRUE]

\* defaults of the keyword arguments of _build_bbduk_cmd that have one
BuilderDefaults ==
    [in2 |-> None, out2 |-> None, stats_fp |-> None] @@ _trim_defaults

\* the list literal the builder starts from
CoreFlags(a) ==
    << "bbduk.sh",
       "in=" \o a.in1,
       "out=" \o a.out1,
       "k=" \o ToString(a.k),
       "ktrim=" \o a.ktrim,
       "qtrim=" \o a.qtrim,
       "trimq=" \o FloatStr(a.trimq),
       "minlength=" \o ToString(a.minlength),
       "threads=" \o ToString(a.threads),
       "overwrite=" \o (IF a.overwrite THEN "t" ELSE "f"),
       "ziplevel=2",
       "ordered=f" >>

\* mutant of MinkFlags: only "mink is not None" is tested
MinkFlagsNoPositiveTest(a) ==
    IF a.mink # None
    THEN << "mink=" \o ToString(a.mink[1]) >>
    ELSE << >>

\* if mink is not None and mink > 0
MinkFlags(a) ==
    IF a.mink # None /\ a.mink[1] > 0
    THEN << "mink=" \o ToString(a.mink[1]) >>
    ELSE << >>

\* mutant of PairFlags: "if tbo:" sits outside the in2/out2 test
PairFlagsTboDedented(a) ==
    (IF a.in2 # None /\ a.out2 # None
     THEN << "in2=" \o a.in2[1], "out2=" \o a.out2[1] >>
          \o (IF a.tpe THEN << "tpe=t" >> ELSE << >>)
     ELSE << >>)
    \o (IF a.tbo
        THEN << "tbo=t", "minoverlap=" \o ToString(a.minoverlap) >>
        ELSE << >>)

\* mutant of PairFlags: 'tpe=t' is appended whatever tpe is
PairFlagsTpeAlways(a) ==
    IF a.in2 # None /\ a.out2 # None
    THEN << "in2=" \o a.in2[1], "out2=" \o a.out2[1], "tpe=t" >>
         \o (IF a.tbo
             THEN << "tbo=t", "minoverlap=" \o ToString(a.minoverlap) >>
             ELSE << >>)
    ELSE << >>

\* if in2 is not None and out2 is not None: in2, out2, then tpe, then tbo
PairFlags(a) ==
    IF a.in2 # None /\ a.out2 # None
    THEN << "in2=" \o a.in2[1], "out2=" \o a.out2[1] >>
         \o (IF a.tpe THEN << "tpe=t" >> ELSE << >>)
         \o (IF a.tbo
             THEN << "tbo=t", "minoverlap=" \o ToString(a.minoverlap) >>
             ELSE << >>)
    ELSE << >>

RefFlags(a) ==
    IF TruthyStr(a.ref) THEN << "ref=" \o a.ref[1] >> ELSE << >>

LiteralFlags(a) ==
    IF TruthyStr(a.literal) THEN << "literal=" \o a.literal[1] >> ELSE << >>

ForceTrimLeftFlags(a) ==
    IF TruthyInt(a.forcetrimleft) /\ a.forcetrimleft[1] > 0
    THEN << "forcetrimleft=" \o ToString(a.forcetrimleft[1]) >>
    ELSE << >>

ForceTrimRightFlags(a) ==
    IF TruthyInt(a.forcetrimright) /\ a.forcetrimright[1] > 0
    THEN << "forcetrimright=" \o ToString(a.forcetrimright[1]) >>
    ELSE << >>

KmaskFlags(a) ==
    IF TruthyStr(a.kmask) THEN << "kmask=" \o a.kmask[1] >> ELSE << >>

StatsFlags(a) ==
    IF TruthyStr(a.stats_fp) THEN << "stats=" \o a.stats_fp[1] >> ELSE << >>

\* mutant of _build_bbduk_cmd: the ref and literal blocks come before the
\* pair block
_build_bbduk_cmd_ref_first(a) ==
    CoreFlags(a) \o MinkFlags(a) \o RefFlags(a) \o LiteralFlags(a)
    \o PairFlags(a) \o ForceTrimLeftFlags(a) \o ForceTrimRightFlags(a)
    \o KmaskFlags(a) \o StatsFlags(a)

\* cmd = [...]; cmd += [...] for each triggered block; return cmd
_build_bbduk_cmd(a) ==
    CoreFlags(a) \o MinkFlags(a) \o PairFlags(a) \o RefFlags(a)
    \o LiteralFlags(a) \o ForceTrimLeftFlags(a) \o ForceTrimRightFlags(a)
    \o KmaskFlags(a) \o StatsFlags(a)

(***************************************************************************)
(* The file system the drivers see                                         *)
(***************************************************************************)
\* directory of the input files the manifest lists
InputDir == "/in"

\* trimmed_sequences.path
ContainerPath == "/out"

\* the name tempfile.TemporaryDirectory() yields
TdPath == "/tmp/td"

ForwardName(id) == "s" \o ToString(id) \o "_R1.fq"

ReverseName(id) == "s" \o ToString(id) \o "_R2.fq"

\* one row of the single-end manifest: (Index, forward)
SingleRow(id) ==
    [id |-> id, forward |-> PathJoin(InputDir, ForwardName(id))]

\* one row of the paired-end manifest: (Index, forward, reverse)
PairedRow(id) ==
    [id |-> id, forward |-> PathJoin(InputDir, ForwardName(id)),
     reverse |-> PathJoin(InputDir, ReverseName(id))]

\* the sample ids of a manifest of n rows, in either row order
SampleOrders(n) == { [i \in 1..n |-> i], [i \in 1..n |-> n + 1 - i] }

SingleManifests ==
    UNION { { [i \in 1..n |-> SingleRow(o[i])] : o \in SampleOrders(n) }
            : n \in 0..MaxRows }

PairedManifests ==
    UNION { { [i \in 1..n |-> PairedRow(o[i])] : o \in SampleOrders(n) }
            : n \in 0..MaxRows }

(***************************************************************************)
(* The external tool, as far as the drivers depend on it: it reads its     *)
(* argv as name=value and writes the files named by out, out2 and stats.   *)
(***************************************************************************)
HasFlag(cmd, name) ==
    \E i \in 1..Len(cmd) : StartsWith(cmd[i], name \o "=")

ArgVal(cmd, name) ==
    LET i == CHOOSE j \in 1..Len(cmd) : StartsWith(cmd[j], name \o "=")
    IN  SubSeq(cmd[i], Len(name) + 2, Len(cmd[i]))

ToolOutputs(cmd) ==
    { ArgVal(cmd, n) : n \in { m \in {"out", "out2"} : HasFlag(cmd, m) } }

ToolStats(cmd) ==
    { ArgVal(cmd, n) : n \in { m \in {"stats"} : HasFlag(cmd, m) } }

(***************************************************************************)
(* trim_single and trim_paired: the command of one manifest row            *)
(***************************************************************************)
StatsPath(fwd) == PathJoin(TdPath, Basename(fwd) \o ".bbduk.stats.txt")

TrimSingleArgs(r, p) ==
    [in1 |-> r.forward,
     out1 |-> PathJoin(ContainerPath, Basename(r.forward)),
     threads |-> p.threads, k |-> p.k, ktrim |-> p.ktrim, mink |-> p.mink,
     qtrim |-> p.qtrim, trimq |-> p.trimq, minlength |-> p.minlength,
     ref |-> p.ref, literal |-> p.literal,
     forcetrimleft |-> p.forcetrimleft, forcetrimright |-> p.forcetrimright,
     kmask |-> p.kmask, stats_fp |-> Some(StatsPath(r.forward))]
    @@ BuilderDefaults

TrimPairedArgs(r, p) ==
    [in1 |-> r.forward,
     out1 |-> PathJoin(ContainerPath, Basename(r.forward)),
     in2 |-> Some(r.reverse),
     out2 |-> Some(PathJoin(ContainerPath, Basename(r.reverse))),
     threads |-> p.threads, k |-> p.k, ktrim |-> p.ktrim, mink |-> p.mink,
     qtrim |-> p.qtrim, trimq |-> p.trimq, minlength |-> p.minlength,
     tpe |-> p.tpe, tbo |-> p.tbo, minoverlap |-> p.minoverlap,
     ref |-> p.ref, literal |-> p.literal,
     forcetrimleft |-> p.forcetrimleft, forcetrimright |-> p.forcetrimright,
     kmask |-> p.kmask, stats_fp |-> Some(StatsPath(r.forward))]
    @@ BuilderDefaults

\* the argument of cmds.append(...) for manifest row r
RowCmd(r) ==
    IF entry = "trim_single"
    THEN _build_bbduk_cmd(TrimSingleArgs(r, params))
    ELSE _build_bbduk_cmd(TrimPairedArgs(r, params))

(***************************************************************************)
(* Calls the model starts from                                             *)
(***************************************************************************)
\* keyword arguments of a driver call; tpe, tbo and minoverlap are
\* parameters of trim_paired only
DriverParams(e) ==
    { [k |-> 31, ktrim |-> "r", qtrim |-> "rl", trimq |-> 75,
       minlength |-> 20, threads |-> 4, minoverlap |-> 12,
       literal |-> None, forcetrimright |-> Some(0),
       mink |-> mk, ref |-> rf, forcetrimleft |-> fl, kmask |-> km,
       tpe |-> tp, tbo |-> tb]
      : mk \in {None, Some(0), Some(5)},
        rf \in {None, Some("adapters")},
        fl \in {Some(0), Some(3)},
        km \in {None, Some("lc")},
        tp \in (IF e = "trim_paired" THEN BOOLEAN ELSE {_trim_defaults.tpe}),
        tb \in (IF e = "trim_paired" THEN BOOLEAN ELSE {_trim_defaults.tbo}) }

\* scalar arguments of a direct builder call, varied together
BuilderScalars ==
    { [k |-> 27, ktrim |-> "f", qtrim |-> "f", trimq |-> 60,
       minlength |-> 10, threads |-> 1, minoverlap |-> 14],
      [k |-> 31, ktrim |-> "r", qtrim |-> "rl", trimq |-> 75,
       minlength |-> 20, threads |-> 4, minoverlap |-> 12] }

\* arguments of a direct call of _build_bbduk_cmd
BuilderCalls ==
    { [in1 |-> "/in/s1_R1.fq", out1 |-> "/out/s1_R1.fq",
       in2 |-> i2, out2 |-> o2, mink |-> mk, tpe |-> tp, tbo |-> tb,
       ref |-> rf, literal |-> lt, forcetrimleft |-> fl,
       forcetrimright |-> fr, kmask |-> km, overwrite |-> ow,
       stats_fp |-> st] @@ sc
      : i2 \in {None, Some("/in/s1_R2.fq")},
        o2 \in {None, Some("/out/s1_R2.fq")},
        mk \in {None, Some(0), Some(5)},
        tp \in BOOLEAN, tb \in BOOLEAN,
        rf \in {None, Some(""), Some("adapters")},
        lt \in {None, Some("ACGT")},
        fl \in {None, Some(0), Some(3)},
        fr \in {Some(0), Some(2)},
        km \in {None, Some("lc")},
        ow \in BOOLEAN,
        st \in {None, Some(""), Some("/tmp/td/s1_R1.fq.bbduk.stats.txt")},
        sc \in BuilderScalars }

InitDriver ==
    /\ entry \in {"trim_single", "trim_paired"}
    /\ params \in DriverParams(entry)
    /\ manifest \in (IF entry = "trim_single"
                     THEN SingleManifests ELSE PairedManifests)
    /\ pc = "start"
    /\ call = None
    /\ ret = None

InitBuilder ==
    /\ entry = "_build_bbduk_cmd"
    /\ params = None
    /\ manifest = << >>
    /\ pc = "called"
    /\ call \in { Some(a) : a \in BuilderCalls }
    /\ ret = None

Init ==
    /\ InitDriver \/ InitBuilder
    /\ row = 0
    /\ cmds = << >>
    /\ td = "absent"
    /\ next = 0
    /\ invoked = << >>
    /\ running = {}
    /\ exits = << >>
    /\ outFiles = {}
    /\ statsFiles = {}

(***************************************************************************)
(* A direct call of the builder                                            *)
(***************************************************************************)
BuildCall ==
    /\ pc = "called"
    /\ ret' = Some(_build_bbduk_cmd(call[1]))
    /\ pc' = "built"
    /\ UNCHANGED <<entry, params, manifest, row, cmds, td, next, invoked,
                   running, exits, outFiles, statsFiles, call>>

(***************************************************************************)
(* The drivers                                                             *)
(***************************************************************************)
\* trimmed_sequences = ...DirFmt(); df = manifest.view(...); cmds = []
Start ==
    /\ pc = "start"
    /\ outFiles' = {}
    /\ cmds' = << >>
    /\ pc' = "with"
    /\ UNCHANGED <<entry, params, manifest, row, td, next, invoked, running,
                   exits, statsFiles, call, ret>>

\* with tempfile.TemporaryDirectory() as td:
EnterTempDir ==
    /\ pc = "with"
    /\ td' = "exists"
    /\ statsFiles' = {}
    /\ row' = 1
    /\ pc' = "build"
    /\ UNCHANGED <<entry, params, manifest, cmds, next, invoked, running,
                   exits, outFiles, call, ret>>

\* the for loop over df.itertuples() has rows left
MoreRows == row <= Len(manifest)

\* one iteration of the for loop: cmds.append(_build_bbduk_cmd(...))
BuildRow ==
    /\ pc = "build"
    /\ MoreRows
    /\ cmds' = Append(cmds, RowCmd(manifest[row]))
    /\ row' = row + 1
    /\ UNCHANGED <<entry, params, manifest, pc, td, next, invoked, running,
                   exits, outFiles, statsFiles, call, ret>>

\* mutant of RunCommandsReached: run_commands(cmds) sits in the loop body
RunCommandsInLoop == row > 1

\* run_commands(cmds) follows the for loop
RunCommandsReached == ~MoreRows

\* the for loop is exhausted: run_commands(cmds) is entered
CallRunCommands ==
    /\ pc = "build"
    /\ RunCommandsReached
    /\ next' = 1
    /\ pc' = "run"
    /\ UNCHANGED <<entry, params, manifest, row, cmds, td, invoked, running,
                   exits, outFiles, statsFiles, call, ret>>

(***************************************************************************)
(* run_commands                                                            *)
(***************************************************************************)
\* mutant of ChildAwaited: the child is started and not waited for
ChildNotAwaited == TRUE

\* subprocess.run returns only once its child has exited
ChildAwaited == running = {}

\* mutant of CheckTrue: check=False
CheckFalse == FALSE

\* check=True: a non-zero returncode raises CalledProcessError
CheckTrue == TRUE

\* for cmd in cmds: print(...); subprocess.run(cmd, check=True) starts the child
Launch ==
    /\ pc = "run"
    /\ next <= Len(cmds)
    /\ ChildAwaited
    /\ invoked' = Append(invoked, cmds[next])
    /\ running' = running \cup {Len(invoked) + 1}
    /\ next' = next + 1
    /\ UNCHANGED <<entry, params, manifest, pc, row, cmds, td, exits,
                   outFiles, statsFiles, call, ret>>

\* child i exits with status 0, having written its output and stats files
ExitZero(i) ==
    /\ i \in running
    /\ running' = running \ {i}
    /\ exits' = Append(exits, <<i, 0>>)
    /\ outFiles' = outFiles \cup ToolOutputs(invoked[i])
    /\ statsFiles' = statsFiles \cup ToolStats(invoked[i])
    /\ UNCHANGED <<entry, params, manifest, pc, row, cmds, td, next, invoked,
                   call, ret>>

\* child i exits with a non-zero status, having written some of its files
ExitNonZero(i) ==
    /\ i \in running
    /\ running' = running \ {i}
    /\ exits' = Append(exits, <<i, 1>>)
    /\ \E w \in SUBSET ToolOutputs(invoked[i]) : outFiles' = outFiles \cup w
    /\ \E w \in SUBSET ToolStats(invoked[i]) : statsFiles' = statsFiles \cup w
    /\ pc' = IF CheckTrue THEN "raising" ELSE pc
    /\ UNCHANGED <<entry, params, manifest, row, cmds, td, next, invoked,
                   call, ret>>

\* the loop of run_commands is exhausted: run_commands returns
RunCommandsReturn ==
    /\ pc = "run"
    /\ next > Len(cmds)
    /\ ChildAwaited
    /\ pc' = "leave"
    /\ UNCHANGED <<entry, params, manifest, row, cmds, td, next, invoked,
                   running, exits, outFiles, statsFiles, call, ret>>

(***************************************************************************)
(* Leaving the with block, and the end of the call                         *)
(***************************************************************************)
\* TemporaryDirectory.__exit__: the directory and all it holds are removed
TempDirExit ==
    /\ td' = "removed"
    /\ statsFiles' = {}

\* mutant of TempDirExitOnError: the directory outlives the exception
TempDirKeptOnError == UNCHANGED <<td, statsFiles>>

\* what the exception's way out of the with block does to the directory
TempDirExitOnError == TempDirExit

\* mutant of ContainerOnError: the failure path empties the container
ContainerEmptiedOnError == {}

\* what is left in the output container when the exception has propagated
ContainerOnError == outFiles

\* normal exit from the with block
LeaveTempDir ==
    /\ pc = "leave"
    /\ TempDirExit
    /\ pc' = "return"
    /\ UNCHANGED <<entry, params, manifest, row, cmds, next, invoked,
                   running, exits, outFiles, call, ret>>

\* return trimmed_sequences
Return ==
    /\ pc = "return"
    /\ pc' = "done"
    /\ UNCHANGED <<entry, params, manifest, row, cmds, td, next, invoked,
                   running, exits, outFiles, statsFiles, call, ret>>

\* CalledProcessError leaves run_commands, the with block and the driver
Unwind ==
    /\ pc = "raising"
    /\ TempDirExitOnError
    /\ outFiles' = ContainerOnError
    /\ pc' = "raised"
    /\ UNCHANGED <<entry, params, manifest, row, cmds, next, invoked,
                   running, exits, call, ret>>

Next ==
    \/ BuildCall
    \/ Start
    \/ EnterTempDir
    \/ BuildRow
    \/ CallRunCommands
    \/ Launch
    \/ \E i \in 1..Len(invoked) : ExitZero(i)
    \/ \E i \in 1..Len(invoked) : ExitNonZero(i)
    \/ RunCommandsReturn
    \/ LeaveTempDir
    \/ Return
    \/ Unwind

Spec == Init /\ [][Next]_vars

(***************************************************************************)
(* Reading a command                                                       *)
(***************************************************************************)
\* number of arguments of cmd that are the flag name
Count(cmd, name) ==
    Cardinality({ i \in 1..Len(cmd) : StartsWith(cmd[i], name \o "=") })

\* whether the literal argument s is in cmd
HasArg(cmd, s) == \E i \in 1..Len(cmd) : cmd[i] = s

\* the text of an argument before its first '='
NameOf(s) ==
    LET at == { i \in 1..Len(s) : SubSeq(s, i, i) = "=" }
    IN  IF at = {} THEN s
        ELSE SubSeq(s, 1, (CHOOSE i \in at : \A j \in at : i <= j) - 1)

\* the flag vocabulary, in the order the builder emits it
FlagOrder ==
    << "in", "out", "k", "ktrim", "qtrim", "trimq", "minlength", "threads",
       "overwrite", "ziplevel", "ordered",
       "mink", "in2", "out2", "tpe", "tbo", "minoverlap", "ref", "literal",
       "forcetrimleft", "forcetrimright", "kmask", "stats" >>

CoreNames == { FlagOrder[i] : i \in 1..11 }

\* position of a flag name in FlagOrder, 0 if it is not a flag
Rank(name) ==
    IF \E i \in 1..Len(FlagOrder) : FlagOrder[i] = name
    THEN CHOOSE i \in 1..Len(FlagOrder) : FlagOrder[i] = name
    ELSE 0

\* the call and the result of a finished direct builder call
Built == pc = "built"

\* every command built so far, by a direct call or by a driver
AllCommands ==
    (IF ret # None THEN {ret[1]} ELSE {}) \cup { cmds[i] : i \in 1..Len(cmds) }

\* the output path the container should hold for an input file name
Expected(name) == "/out/" \o name

(***************************************************************************)
(* C1                                                                      *)
(***************************************************************************)
\* the part of C1 that does not concern in2/out2: the unconditional flags
\* occur exactly once, and mink, ref, literal, forcetrimleft,
\* forcetrimright, kmask and stats occur (once) exactly when their value is
\* present and non-zero / non-empty
C1_Common(a, c) ==
    /\ \A n \in CoreNames : Count(c, n) = 1
    /\ HasArg(c, "ziplevel=2") /\ HasArg(c, "ordered=f")
    /\ \A n \in {"mink", "in2", "out2", "ref", "literal", "forcetrimleft",
                 "forcetrimright", "kmask", "stats"} : Count(c, n) <= 1
    /\ HasFlag(c, "mink") <=> (a.mink # None /\ a.mink[1] # 0)
    /\ a.mink = Some(5) => HasArg(c, "mink=5")
    /\ HasFlag(c, "ref") <=> (a.ref # None /\ a.ref[1] # "")
    /\ HasFlag(c, "literal") <=> (a.literal # None /\ a.literal[1] # "")
    /\ HasFlag(c, "forcetrimleft")
         <=> (a.forcetrimleft # None /\ a.forcetrimleft[1] # 0)
    /\ HasFlag(c, "forcetrimright")
         <=> (a.forcetrimright # None /\ a.forcetrimright[1] # 0)
    /\ HasFlag(c, "kmask") <=> (a.kmask # None /\ a.kmask[1] # "")
    /\ HasFlag(c, "stats") <=> (a.stats_fp # None /\ a.stats_fp[1] # "")

\* C1 as stated: the list returned by _build_bbduk_cmd holds every
\* unconditional flag exactly once and each conditional flag if and only
\* if its triggering value is present/non-zero, with in2 and out2 present
\* if and only if a reverse read path (in2) is supplied.
C1_Original ==
    Built =>
        /\ C1_Common(call[1], ret[1])
        /\ HasFlag(ret[1], "in2") <=> (call[1].in2 # None)
        /\ HasFlag(ret[1], "out2") <=> (call[1].in2 # None)

\* C1 amended: as C1, but in2 and out2 are present if and only if both a
\* reverse read path (in2) and a second output path (out2) are supplied.
C1_Amended ==
    Built =>
        /\ C1_Common(call[1], ret[1])
        /\ HasFlag(ret[1], "in2")
             <=> (call[1].in2 # None /\ call[1].out2 # None)
        /\ HasFlag(ret[1], "out2")
             <=> (call[1].in2 # None /\ call[1].out2 # None)

\* a built command for mink=0, ref=None, literal=None and a reverse read
\* path without a second output path
C1_Witness ==
    /\ Built
    /\ call[1].mink = Some(0) /\ call[1].ref = None /\ call[1].literal = None
    /\ call[1].in2 # None /\ call[1].out2 = None
    /\ ~HasFlag(ret[1], "mink") /\ ~HasFlag(ret[1], "in2")

(***************************************************************************)
(* C9                                                                      *)
(***************************************************************************)
\* str() of a Python bool
PyBoolStr(b) == IF b THEN "True" ELSE "False"

\* the order of the arguments of c, and the values of all parameters but the
\* booleans: 'bbduk.sh' first, the eleven core flags next in their fixed
\* order, then conditional flags only, all in the fixed relative order; each
\* value is the str() of the argument it comes from
C9_OrderAndValues(a, c) ==
    /\ Len(c) >= 12
    /\ c[1] = "bbduk.sh"
    /\ LET rank == [i \in 2..Len(c) |-> Rank(NameOf(c[i]))]
       IN  /\ \A i \in 2..12 : rank[i] = i - 1
           /\ \A i \in 13..Len(c) : rank[i] >= 12
           /\ \A i \in 2..(Len(c) - 1) : rank[i] < rank[i + 1]
    /\ ArgVal(c, "in") = a.in1
    /\ ArgVal(c, "out") = a.out1
    /\ ArgVal(c, "k") = ToString(a.k)
    /\ ArgVal(c, "ktrim") = a.ktrim
    /\ ArgVal(c, "qtrim") = a.qtrim
    /\ ArgVal(c, "trimq") = FloatStr(a.trimq)
    /\ ArgVal(c, "minlength") = ToString(a.minlength)
    /\ ArgVal(c, "threads") = ToString(a.threads)
    /\ ArgVal(c, "ziplevel") = "2"
    /\ ArgVal(c, "ordered") = "f"
    /\ HasFlag(c, "mink") => ArgVal(c, "mink") = ToString(a.mink[1])
    /\ HasFlag(c, "in2") => ArgVal(c, "in2") = a.in2[1]
    /\ HasFlag(c, "out2") => ArgVal(c, "out2") = a.out2[1]
    /\ HasFlag(c, "minoverlap")
         => ArgVal(c, "minoverlap") = ToString(a.minoverlap)
    /\ HasFlag(c, "ref") => ArgVal(c, "ref") = a.ref[1]
    /\ HasFlag(c, "literal") => ArgVal(c, "literal") = a.literal[1]
    /\ HasFlag(c, "forcetrimleft")
         => ArgVal(c, "forcetrimleft") = ToString(a.forcetrimleft[1])
    /\ HasFlag(c, "forcetrimright")
         => ArgVal(c, "forcetrimright") = ToString(a.forcetrimright[1])
    /\ HasFlag(c, "kmask") => ArgVal(c, "kmask") = a.kmask[1]
    /\ HasFlag(c, "stats") => ArgVal(c, "stats") = a.stats_fp[1]

\* C9 as stated: the returned list is 'bbduk.sh', the core flags in the
\* fixed order, then the triggered conditional flags in the fixed relative
\* order, and every parameter value is passed through verbatim, the
\* overwrite argument included.
C9_Original ==
    Built =>
        /\ C9_OrderAndValues(call[1], ret[1])
        /\ ArgVal(ret[1], "overwrite") = PyBoolStr(call[1].overwrite)

\* C9 amended: the same order, and every parameter value is passed through
\* verbatim except the booleans: overwrite is rendered as 't' or 'f', and
\* tpe and tbo only ever contribute the fixed arguments 'tpe=t' and 'tbo=t'.
C9_Amended ==
    Built =>
        /\ C9_OrderAndValues(call[1], ret[1])
        /\ ArgVal(ret[1], "overwrite")
             = (IF call[1].overwrite THEN "t" ELSE "f")
        /\ HasFlag(ret[1], "tpe") => ArgVal(ret[1], "tpe") = "t"
        /\ HasFlag(ret[1], "tbo") => ArgVal(ret[1], "tbo") = "t"

\* a built command in which every conditional flag is triggered
C9_Witness ==
    /\ Built
    /\ Len(ret[1]) = 24
    /\ call[1].overwrite

(***************************************************************************)
(* C10                                                                     *)
(***************************************************************************)
\* C10: in every command built, minoverlap is present if and only if
\* 'tbo=t' is; 'tpe=t' and 'tbo=t' are present only together with both in2
\* and out2, so a direct call without both a second input and a second
\* output path emits none of them; and no command of trim_single holds in2,
\* out2, tpe, tbo or minoverlap.
C10_PairInvariant ==
    /\ \A c \in AllCommands :
         /\ HasFlag(c, "minoverlap") <=> HasArg(c, "tbo=t")
         /\ HasFlag(c, "tbo") <=> HasArg(c, "tbo=t")
         /\ HasFlag(c, "tpe") <=> HasArg(c, "tpe=t")
         /\ (HasFlag(c, "tpe") \/ HasFlag(c, "tbo"))
              => (HasFlag(c, "in2") /\ HasFlag(c, "out2"))
         /\ entry = "trim_single" =>
              \A n \in {"in2", "out2", "tpe", "tbo", "minoverlap"} :
                  ~HasFlag(c, n)
    /\ (Built /\ (call[1].in2 = None \/ call[1].out2 = None)) =>
         \A n \in {"tpe", "tbo", "minoverlap"} : ~HasFlag(ret[1], n)

\* a direct call with tpe and tbo set and a second input but no second
\* output path has returned
C10_Witness ==
    /\ Built
    /\ call[1].tpe /\ call[1].tbo
    /\ call[1].in2 # None /\ call[1].out2 = None
    /\ ~HasFlag(ret[1], "tbo")

(***************************************************************************)
(* The drivers' claims                                                     *)
(***************************************************************************)
\* the subprocess of invocation i has exited with a non-zero status
Failed(i) == \E j \in 1..Len(exits) : exits[j] = <<i, 1>>

\* the subprocess of invocation i has exited with status 0
Succeeded(i) == \E j \in 1..Len(exits) : exits[j] = <<i, 0>>

\* C2: when trim_single has returned, exactly N subprocesses were invoked,
\* the i-th being the command built from the i-th manifest row, whose output
\* path is the container path joined with the basename of that row's input;
\* the container then holds exactly these N files.
C2_SingleBatch ==
    (entry = "trim_single" /\ pc = "done") =>
        /\ Len(invoked) = Len(manifest)
        /\ Len(exits) = Len(manifest)
        /\ \A i \in 1..Len(manifest) :
             /\ invoked[i] = RowCmd(manifest[i])
             /\ Count(invoked[i], "in") = 1
             /\ ArgVal(invoked[i], "in") = manifest[i].forward
             /\ Count(invoked[i], "out") = 1
             /\ ArgVal(invoked[i], "out")
                  = Expected(ForwardName(manifest[i].id))
        /\ outFiles = { Expected(ForwardName(manifest[i].id))
                        : i \in 1..Len(manifest) }
        /\ Cardinality(outFiles) = Len(manifest)

\* trim_single has returned for a manifest of at least two rows that is not
\* in ascending sample order
C2_Witness ==
    /\ entry = "trim_single" /\ pc = "done"
    /\ Len(manifest) >= 2
    /\ manifest[1].id > manifest[2].id
    /\ Len(invoked) = Len(manifest)

\* C3: when trim_paired has returned, exactly N subprocesses were invoked,
\* each command carrying in, in2, out and out2 (once each, for the row's two
\* files), with tpe=t only if tpe was requested and tbo=t and minoverlap
\* only if tbo was requested.
C3_PairedBatch ==
    (entry = "trim_paired" /\ pc = "done") =>
        /\ Len(invoked) = Len(manifest)
        /\ \A i \in 1..Len(manifest) :
             /\ \A n \in {"in", "in2", "out", "out2"} :
                    Count(invoked[i], n) = 1
             /\ ArgVal(invoked[i], "in") = manifest[i].forward
             /\ ArgVal(invoked[i], "in2") = manifest[i].reverse
             /\ ArgVal(invoked[i], "out")
                  = Expected(ForwardName(manifest[i].id))
             /\ ArgVal(invoked[i], "out2")
                  = Expected(ReverseName(manifest[i].id))
             /\ HasFlag(invoked[i], "tpe") => params.tpe
             /\ HasFlag(invoked[i], "tbo") => params.tbo
             /\ HasFlag(invoked[i], "minoverlap") => params.tbo

\* trim_paired has returned for two or more rows with tbo requested and
\* tpe not
C3_Witness ==
    /\ entry = "trim_paired" /\ pc = "done"
    /\ Len(manifest) >= 2
    /\ params.tbo /\ ~params.tpe
    /\ HasArg(invoked[2], "tbo=t")

\* C4: once the subprocess of sample i has exited non-zero, the driver is
\* raising or has raised (it never returns), exactly i invocations have
\* occurred, they are the first i commands (sample i was not retried), no
\* subprocess is running, and that exit is the last one recorded.
C4_AbortOnFailure ==
    \A i \in 1..Len(invoked) :
        Failed(i) =>
            /\ pc \in {"raising", "raised"}
            /\ Len(invoked) = i
            /\ invoked = SubSeq(cmds, 1, i)
            /\ running = {}
            /\ exits[Len(exits)] = <<i, 1>>
            /\ Len(exits) = i

\* the driver has raised on sample 2 of 3
C4_Witness ==
    /\ pc = "raised"
    /\ Len(manifest) = 3
    /\ Failed(2)
    /\ Len(invoked) = 2

\* C5: whenever a subprocess has been invoked, the command of every
\* manifest row has already been built and appended, and the invocations
\* so far are the accumulated commands in their order of accumulation.
C5_BuildBeforeRun ==
    Len(invoked) > 0 =>
        /\ Len(cmds) = Len(manifest)
        /\ \A i \in 1..Len(manifest) : cmds[i] = RowCmd(manifest[i])
        /\ invoked = SubSeq(cmds, 1, Len(invoked))

\* the first of three commands has been invoked
C5_Witness ==
    /\ Len(manifest) = 3
    /\ Len(invoked) = 1
    /\ running = {1}

\* C6: at most one subprocess is running at any time, and while one is
\* running the driver does nothing but wait for it: the only step is that
\* subprocess's exit, so no further subprocess starts and the driver
\* neither returns nor raises before it.
C6_Sequential ==
    /\ [](Cardinality(running) <= 1)
    /\ [][running # {} =>
            /\ invoked' = invoked
            /\ next' = next
            /\ running' = {}
            /\ Len(exits') = Len(exits) + 1
            /\ pc' \in {pc, "raising"}]_vars

\* the second subprocess is running after the first has exited with 0
C6_Witness ==
    /\ running = {2}
    /\ Succeeded(1)
    /\ pc = "run"

\* C7: the temporary directory exists while any subprocess is running, and
\* once the driver has left the with block, normally or by the exception of
\* a failed subprocess, the directory and every stats file in it are gone.
C7_TempDirScope ==
    /\ running # {} => td = "exists"
    /\ statsFiles # {} => td = "exists"
    /\ pc \in {"return", "done", "raised"} =>
         (td = "removed" /\ statsFiles = {})

\* the driver has raised after an earlier sample had succeeded
C7_Witness ==
    /\ pc = "raised"
    /\ Succeeded(1)
    /\ Failed(2)
    /\ td = "removed"

\* C8: when the batch is aborting or has aborted on a failed subprocess,
\* the output files of every sample whose subprocess succeeded are still in
\* the output container.
C8_OutputsKept ==
    pc \in {"raising", "raised"} =>
        \A i \in 1..Len(invoked) :
            Succeeded(i) =>
                /\ Expected(ForwardName(manifest[i].id)) \in outFiles
                /\ entry = "trim_paired" =>
                     Expected(ReverseName(manifest[i].id)) \in outFiles

\* the driver has raised on sample 3 and the files of samples 1 and 2 are
\* in the container
C8_Witness ==
    /\ pc = "raised"
    /\ Failed(3)
    /\ Expected(ForwardName(manifest[1].id)) \in outFiles
    /\ Expected(ForwardName(manifest[2].id)) \in outFiles

====
